---------------------------- MODULE Spec2Model ----------------------------
(***************************************************************************)
(* onetun: userspace TCP port forwarding over WireGuard.                   *)
(*                                                                         *)
(* The model covers the virtual port pool (TcpPortPool), the accept loop   *)
(* and per-connection task of tcp_proxy_server, the bridge loop of         *)
(* handle_tcp_proxy_connection (src/src/tunnel/tcp.rs) and the poll loop   *)
(* of the per-connection virtual interface (src/src/main.rs,               *)
(* virtual_tcp_interface).  The registration of the interface with the     *)
(* tunnel and the ready one-shot live in virtual_iface/tcp.rs, which is    *)
(* not part of the snapshot; those two steps follow spec.md section 4.4.   *)
(*                                                                         *)
(* Bytes are modelled as sequence numbers: the k-th byte a real client     *)
(* (or the destination) produces is the number k, so loss, duplication     *)
(* and reordering are visible in the histories.                            *)
(***************************************************************************)
EXTENDS Integers, Sequences, FiniteSets, TLC

\* ------------------------------------------------------------------ bounds
\* Number of connection slots (connections alive at the same time).
MaxConns == 2
\* Number of ports of the pool: PORT_RANGE is MIN_PORT .. MIN_PORT + PoolSize - 1.
PoolSize == 2
\* Connections the listener accepts in one run.
MaxAccepts == 3
\* Bytes the real clients send, and bytes the destination sends back, over
\* all connections of a run of the whole server.
MaxSrcBytes == 2
MaxDstBytes == 2
\* The same for a run with a single connection.
StreamSrcBytes == 3
StreamDstBytes == 3
\* Capacity of each byte-chunk channel (1_000 in the source).
ChanCap == 1
\* Size of a read buffer and of the virtual socket's buffers (65536 in the source).
MAX_PACKET == 2
\* Calls of the pool API in PoolSpec.
MaxPoolCalls == 5
\* Packets the tunnel decapsulates in a run of TunnelSpec, and connections
\* the listener accepts in such a run.
MaxPackets == 2
TunnelAccepts == 3

\* --------------------------------------------------------------- constants
MIN_PORT == 1000
MAX_PORT == MIN_PORT + PoolSize
PORT_RANGE == MIN_PORT .. (MAX_PORT - 1)

Conns == 1 .. MaxConns
NoPort == 0
NoConn == 0

\* ----------------------------------------------------------------- helpers
Range(s) == {s[i] : i \in 1 .. Len(s)}

Min(a, b) == IF a < b THEN a ELSE b

Prefix(s, n) == SubSeq(s, 1, n)

Suffix(s, n) == SubSeq(s, n + 1, Len(s))

RECURSIVE Flatten(_)
Flatten(chunks) ==
    IF chunks = <<>> THEN <<>> ELSE Head(chunks) \o Flatten(Tail(chunks))

StrictlyIncreasing(s) == \A i, j \in 1 .. Len(s) : i < j => s[i] < s[j]

\* All orders of the ports of PORT_RANGE: what ports.shuffle() can produce.
Shuffles ==
    {s \in [1 .. PoolSize -> PORT_RANGE] : \A i, j \in 1 .. PoolSize : i # j => s[i] # s[j]}

\* ------------------------------------------------------------ TcpPortPool
\* TcpPortPoolInner: the queue of free ports and the set of taken ports.
TcpPortPoolInner(q, t) == [queue |-> q, taken |-> t]

\* TcpPortPool::new with the shuffle's outcome.
Pool_new(shuffled) == TcpPortPoolInner(shuffled, {})

\* A next() that reads the head of the queue without removing it.
Pool_next_peek(inner) ==
    IF inner.queue = <<>>
    THEN [ok |-> FALSE, port |-> NoPort, inner |-> inner]
    ELSE [ok |-> TRUE, port |-> Head(inner.queue),
          inner |-> TcpPortPoolInner(inner.queue, inner.taken \cup {Head(inner.queue)})]

\* TcpPortPool::next under the write lock: pop_front, or the exhaustion error;
\* the popped port is inserted into taken.
Pool_next(inner) ==
    IF inner.queue = <<>>
    THEN [ok |-> FALSE, port |-> NoPort, inner |-> inner]
    ELSE [ok |-> TRUE, port |-> Head(inner.queue),
          inner |-> TcpPortPoolInner(Tail(inner.queue), inner.taken \cup {Head(inner.queue)})]

\* A release() that forgets to remove the port from taken.
Pool_release_keep_taken(inner, p) ==
    TcpPortPoolInner(Append(inner.queue, p), inner.taken)

\* TcpPortPool::release under the write lock: push_back, then taken.remove.
\* There is no test whether the port is taken.
Pool_release(inner, p) ==
    TcpPortPoolInner(Append(inner.queue, p), inner.taken \ {p})


\* ------------------------------------------------------------------- state
VARIABLES
    inner,                  \* TcpPortPool.inner: [queue, taken]
    poolCall,               \* the last call of the pool API (PoolSpec only)
    calls,                  \* number of pool API calls made (PoolSpec only)
    registered,             \* ports registered with the WireGuard tunnel
    serverPc,               \* accept loop: "accepting" or "returned"
    accepted,               \* connections the listener has accepted
    errors,                 \* "Failed to assign virtual port number" errors logged
    connPc,                 \* connection task: idle, wait_ready, bridge, bridge_send,
                            \*   returned, unregistered
    virtual_port,           \* the port the connection task holds
    result,                 \* what handle_tcp_proxy_connection returned: none, ok, err
    abort,                  \* the connection's abort flag
    ready,                  \* virtual_client_ready one-shot: pending, fired, dropped
    ifacePc,                \* interface task: none, spawned, setup, loop, recv_blocked,
                            \*   failed, done
    client,                 \* the real client's end: open, eof, reset
    srcSent,                \* bytes the real clients have sent so far
    srcBuf,                 \* bytes in the real socket, not yet read by the bridge
    srcRead,                \* history: bytes the bridge read from the real socket
    bridgePending,          \* the chunk a suspended data_to_virtual_server_tx.send holds
    data_to_virtual_server, \* channel bridge -> interface (to_real_server)
    data_to_real_client,    \* channel interface -> bridge (to_real_client)
    ifacePending,           \* the chunk a suspended data_to_real_client_tx.send holds
    vsock,                  \* virtual client socket: Closed, SynSent, Established
    txLen,                  \* bytes in the virtual client socket's send buffer
    sockIn,                 \* history: bytes send_slice accepted
    dstSent,                \* bytes the destination has sent so far
    clientOut,              \* history: bytes written to the real client socket
    workload,               \* what the environment offers in this run: connections
                            \*   to accept, bytes of the clients, bytes of the destination,
                            \*   packets the tunnel decapsulates
    routes,                 \* the tunnel's routing table: port -> connection whose
                            \*   device holds the receiving end, NoConn if none
    inbound,                \* inbound queue of each connection's virtual device:
                            \*   destination ports of the frames waiting for the next poll
    sinkQueue,              \* inbound queue of the sink device
    routed,                 \* packets the tunnel has decapsulated and routed
    sinkPc,                 \* sink loop: "poll" or "sleep"
    sinkSleep               \* milliseconds of the sink loop's last suspension

poolVars == <<inner, poolCall, calls>>
serverVars == <<registered, routes, serverPc, accepted, errors>>
connVars == <<connPc, virtual_port, result, abort, ready, ifacePc>>
bridgeData == <<client, srcSent, srcBuf, srcRead, bridgePending, clientOut>>
chanVars == <<data_to_virtual_server, data_to_real_client>>
ifaceData == <<ifacePending, vsock, txLen, sockIn, dstSent, inbound>>
tunnelVars == <<sinkQueue, routed, sinkPc, sinkSleep>>
vars == <<poolVars, serverVars, connVars, bridgeData, chanVars, ifaceData, tunnelVars, workload>>

NoCall == [op |-> "none", port |-> NoPort, ok |-> TRUE]

InitWith(offered) ==
    /\ workload = offered
    /\ inner \in {Pool_new(s) : s \in Shuffles}
    /\ poolCall = NoCall
    /\ calls = 0
    /\ registered = {}
    /\ serverPc = "accepting"
    /\ accepted = 0
    /\ errors = 0
    /\ connPc = [c \in Conns |-> "idle"]
    /\ virtual_port = [c \in Conns |-> NoPort]
    /\ result = [c \in Conns |-> "none"]
    /\ abort = [c \in Conns |-> FALSE]
    /\ ready = [c \in Conns |-> "pending"]
    /\ ifacePc = [c \in Conns |-> "none"]
    /\ client = [c \in Conns |-> "open"]
    /\ srcSent = 0
    /\ srcBuf = [c \in Conns |-> <<>>]
    /\ srcRead = [c \in Conns |-> <<>>]
    /\ bridgePending = [c \in Conns |-> <<>>]
    /\ data_to_virtual_server = [c \in Conns |-> <<>>]
    /\ data_to_real_client = [c \in Conns |-> <<>>]
    /\ ifacePending = [c \in Conns |-> <<>>]
    /\ vsock = [c \in Conns |-> "Closed"]
    /\ txLen = [c \in Conns |-> 0]
    /\ sockIn = [c \in Conns |-> <<>>]
    /\ dstSent = 0
    /\ clientOut = [c \in Conns |-> <<>>]
    /\ routes = [p \in PORT_RANGE |-> NoConn]
    /\ inbound = [c \in Conns |-> <<>>]
    /\ sinkQueue = <<>>
    /\ routed = 0
    /\ sinkPc = "poll"
    /\ sinkSleep = 0

\* The whole server: several connections, little data.
Init == InitWith([accepts |-> MaxAccepts, src |-> MaxSrcBytes, dst |-> MaxDstBytes, packets |-> 0])

\* One connection, more data.
ConnInit ==
    InitWith([accepts |-> 1, src |-> StreamSrcBytes, dst |-> StreamDstBytes, packets |-> 0])

\* Connections without payload; the tunnel decapsulates packets.
TunnelInit ==
    InitWith([accepts |-> TunnelAccepts, src |-> 0, dst |-> 0, packets |-> MaxPackets])

\* ------------------------------------------------- the pool API on its own
\* Any caller calls next().
ApiNext ==
    /\ calls < MaxPoolCalls
    /\ inner' = Pool_next(inner).inner
    /\ poolCall' = [op |-> "next", port |-> Pool_next(inner).port, ok |-> Pool_next(inner).ok]
    /\ calls' = calls + 1
    /\ UNCHANGED <<tunnelVars, workload, serverVars, connVars, bridgeData, chanVars, ifaceData>>

\* Any caller calls release(p), for any port p of the range.
ApiRelease(p) ==
    /\ calls < MaxPoolCalls
    /\ inner' = Pool_release(inner, p)
    /\ poolCall' = [op |-> "release", port |-> p, ok |-> TRUE]
    /\ calls' = calls + 1
    /\ UNCHANGED <<tunnelVars, workload, serverVars, connVars, bridgeData, chanVars, ifaceData>>

PoolNext == ApiNext \/ \E p \in PORT_RANGE : ApiRelease(p)

PoolSpec == Init /\ [][PoolNext]_vars

\* ------------------------------------------------------- tcp_proxy_server
\* The handler of connection c has not returned: its socket and its channel
\* ends (data_to_real_client_rx, data_to_virtual_server_tx) are alive.
HandlerAlive(c) == connPc[c] \in {"wait_ready", "bridge", "bridge_send"}

\* The interface task of c still owns the TcpVirtualInterface: its channel
\* ends (data_to_real_client_tx, data_to_virtual_server_rx) are alive.
IfaceAlive(c) == ifacePc[c] \in {"spawned", "setup", "loop", "recv_blocked"}

\* A slot is free when both tasks of its previous connection have ended.
SlotFree(c) == connPc[c] = "idle" /\ ifacePc[c] \in {"none", "done"}

FreeSlot == CHOOSE c \in Conns : SlotFree(c) /\ \A d \in Conns : SlotFree(d) => c <= d

\* accept() succeeded and next() returned a port: the connection task is
\* spawned and runs handle_tcp_proxy_connection up to the wait on the ready
\* one-shot (lines 84-116: abort flag, one-shot, both channels, interface task).
AcceptSpawn ==
    /\ serverPc = "accepting"
    /\ accepted < workload.accepts
    /\ \E c \in Conns : SlotFree(c)
    /\ Pool_next(inner).ok
    /\ LET c == FreeSlot
           r == Pool_next(inner)
       IN  /\ inner' = r.inner
           /\ accepted' = accepted + 1
           /\ connPc' = [connPc EXCEPT ![c] = "wait_ready"]
           /\ virtual_port' = [virtual_port EXCEPT ![c] = r.port]
           /\ result' = [result EXCEPT ![c] = "none"]
           /\ abort' = [abort EXCEPT ![c] = FALSE]
           /\ ready' = [ready EXCEPT ![c] = "pending"]
           /\ ifacePc' = [ifacePc EXCEPT ![c] = "spawned"]
    /\ UNCHANGED <<tunnelVars, workload, poolCall, calls, registered, routes, serverPc, errors, bridgeData, chanVars,
                   ifaceData>>

\* The exhaustion arm that returns from the accept loop instead of continuing.
AcceptExhausted_return ==
    /\ serverPc = "accepting"
    /\ accepted < workload.accepts
    /\ ~Pool_next(inner).ok
    /\ inner' = Pool_next(inner).inner
    /\ accepted' = accepted + 1
    /\ errors' = errors + 1
    /\ serverPc' = "returned"
    /\ UNCHANGED <<tunnelVars, workload, poolCall, calls, registered, routes, connVars, bridgeData, chanVars, ifaceData>>

\* accept() succeeded and next() returned the exhaustion error: the error is
\* logged and the loop continues; the accepted socket is dropped.
AcceptExhausted ==
    /\ serverPc = "accepting"
    /\ accepted < workload.accepts
    /\ ~Pool_next(inner).ok
    /\ inner' = Pool_next(inner).inner
    /\ accepted' = accepted + 1
    /\ errors' = errors + 1
    /\ UNCHANGED <<tunnelVars, workload, poolCall, calls, registered, routes, serverPc, connVars, bridgeData, chanVars,
                   ifaceData>>

\* accept() failed: the error is propagated with `?` and tcp_proxy_server returns.
AcceptError ==
    /\ serverPc = "accepting"
    /\ serverPc' = "returned"
    /\ UNCHANGED <<tunnelVars, workload, poolVars, registered, routes, accepted, errors, connVars, bridgeData, chanVars,
                   ifaceData>>

\* The ready one-shot fired: the handler enters the bridge loop.
HandlerReady(c) ==
    /\ connPc[c] = "wait_ready"
    /\ ready[c] = "fired"
    /\ connPc' = [connPc EXCEPT ![c] = "bridge"]
    /\ UNCHANGED <<tunnelVars, workload, poolVars, serverVars, virtual_port, result, abort, ready, ifacePc,
                   bridgeData, chanVars, ifaceData>>

\* The handler returns: its locals are dropped, that is the real socket and
\* the channel ends data_to_real_client_rx and data_to_virtual_server_tx.
HandlerDrop(c) ==
    /\ client' = [client EXCEPT ![c] = "open"]
    /\ srcBuf' = [srcBuf EXCEPT ![c] = <<>>]
    /\ srcRead' = [srcRead EXCEPT ![c] = <<>>]
    /\ clientOut' = [clientOut EXCEPT ![c] = <<>>]
    /\ bridgePending' = [bridgePending EXCEPT ![c] = <<>>]
    /\ data_to_real_client' = [data_to_real_client EXCEPT ![c] = <<>>]

\* A handler that ignores the failed wait and enters the bridge loop.
HandlerReadyDropped_enter(c) ==
    /\ connPc[c] = "wait_ready"
    /\ ready[c] = "dropped"
    /\ connPc' = [connPc EXCEPT ![c] = "bridge"]
    /\ UNCHANGED <<tunnelVars, workload, poolVars, serverVars, virtual_port, result, abort, ready,
                   ifacePc, bridgeData, chanVars, ifaceData>>

\* The ready sender was dropped: the handler returns the error (line 121)
\* without entering the bridge loop and without storing abort.
HandlerReadyDropped(c) ==
    /\ connPc[c] = "wait_ready"
    /\ ready[c] = "dropped"
    /\ connPc' = [connPc EXCEPT ![c] = "returned"]
    /\ result' = [result EXCEPT ![c] = "err"]
    /\ HandlerDrop(c)
    /\ UNCHANGED <<tunnelVars, workload, poolVars, serverVars, virtual_port, abort, ready, ifacePc, srcSent,
                   data_to_virtual_server, ifaceData>>

\* The bridge loop is left by a break: abort is stored and the handler
\* returns Ok (lines 201-203).
BridgeExit(c) ==
    /\ connPc' = [connPc EXCEPT ![c] = "returned"]
    /\ result' = [result EXCEPT ![c] = "ok"]
    /\ abort' = [abort EXCEPT ![c] = TRUE]
    /\ HandlerDrop(c)
    /\ UNCHANGED <<tunnelVars, workload, poolVars, serverVars, virtual_port, ready, ifacePc, srcSent,
                   data_to_virtual_server, ifaceData>>

\* A connection task that skips the release_virtual_interface call.
ConnUnregister_skip(c) ==
    /\ connPc[c] = "returned"
    /\ connPc' = [connPc EXCEPT ![c] = "unregistered"]
    /\ UNCHANGED <<tunnelVars, workload, poolVars, registered, routes, serverPc, accepted, errors, virtual_port, result,
                   abort, ready, ifacePc, bridgeData, chanVars, ifaceData>>

\* The connection task, after the handler returned: release_virtual_interface (line 70).
ConnUnregister(c) ==
    /\ connPc[c] = "returned"
    /\ registered' = registered \ {virtual_port[c]}
    /\ routes' = [routes EXCEPT ![virtual_port[c]] = NoConn]
    /\ connPc' = [connPc EXCEPT ![c] = "unregistered"]
    /\ UNCHANGED <<tunnelVars, workload, poolVars, serverPc, accepted, errors, virtual_port, result, abort, ready,
                   ifacePc, bridgeData, chanVars, ifaceData>>

\* A connection task that leaves with the handler's error before the release.
ConnRelease_leak(c) ==
    /\ connPc[c] = "unregistered"
    /\ inner' = IF result[c] = "err" THEN inner ELSE Pool_release(inner, virtual_port[c])
    /\ connPc' = [connPc EXCEPT ![c] = "idle"]
    /\ virtual_port' = [virtual_port EXCEPT ![c] = NoPort]
    /\ result' = [result EXCEPT ![c] = "none"]
    /\ UNCHANGED <<tunnelVars, workload, poolCall, calls, serverVars, abort, ready, ifacePc,
                   bridgeData, chanVars, ifaceData>>

\* The connection task's last step: port_pool.release (line 71); the task ends.
ConnRelease(c) ==
    /\ connPc[c] = "unregistered"
    /\ inner' = Pool_release(inner, virtual_port[c])
    /\ connPc' = [connPc EXCEPT ![c] = "idle"]
    /\ virtual_port' = [virtual_port EXCEPT ![c] = NoPort]
    /\ result' = [result EXCEPT ![c] = "none"]
    /\ UNCHANGED <<tunnelVars, workload, poolCall, calls, serverVars, abort, ready, ifacePc, bridgeData, chanVars,
                   ifaceData>>

\* ------------------------------------------ the real client (environment)
\* Only the bridge loop looks at the real socket, so what the client does
\* while the handler still waits for the ready signal is modelled as done
\* right after the bridge loop is entered.
BridgeRunning(c) == connPc[c] \in {"bridge", "bridge_send"}

\* The real client sends one more byte: it waits in the real socket.
ClientSend(c) ==
    /\ BridgeRunning(c)
    /\ client[c] = "open"
    /\ srcSent < workload.src
    /\ srcSent' = srcSent + 1
    /\ srcBuf' = [srcBuf EXCEPT ![c] = Append(@, srcSent + 1)]
    /\ UNCHANGED <<tunnelVars, workload, poolVars, serverVars, connVars, client, srcRead, bridgePending, clientOut,
                   chanVars, ifaceData>>

\* The real client closes its end (FIN) or resets the connection (RST).
ClientClose(c, how) ==
    /\ BridgeRunning(c)
    /\ client[c] = "open"
    /\ client' = [client EXCEPT ![c] = how]
    /\ UNCHANGED <<tunnelVars, workload, poolVars, serverVars, connVars, srcSent, srcBuf, srcRead, bridgePending,
                   clientOut, chanVars, ifaceData>>

\* ------------------------------- handle_tcp_proxy_connection: bridge loop
\* data_to_virtual_server_tx.send(chunk): the outcome for the sender.
\*   "closed": the receiver is gone, send returns Err
\*   "sent":   there is room, the chunk is enqueued
\*   "full":   the sender is suspended
SendOutcome(queue, receiverAlive) ==
    IF ~receiverAlive THEN "closed"
    ELSE IF Len(queue) < ChanCap THEN "sent"
    ELSE "full"

\* readable arm, WouldBlock (lines 145-147): readable() resolved but the read
\* found nothing; the loop continues.
BridgeReadWouldBlock(c) ==
    /\ connPc[c] = "bridge"
    /\ client[c] = "open"
    /\ srcBuf[c] = <<>>
    /\ UNCHANGED vars

\* A read that forwards only the first byte of what it read.
BridgeRead_truncated(c) ==
    /\ connPc[c] = "bridge"
    /\ client[c] # "reset"
    /\ srcBuf[c] # <<>>
    /\ LET size == Min(Len(srcBuf[c]), MAX_PACKET)
           data == Prefix(srcBuf[c], size)
           out == SendOutcome(data_to_virtual_server[c], IfaceAlive(c))
       IN  /\ srcBuf' = [srcBuf EXCEPT ![c] = Suffix(@, size)]
           /\ srcRead' = [srcRead EXCEPT ![c] = @ \o data]
           /\ data_to_virtual_server' =
                 [data_to_virtual_server EXCEPT
                     ![c] = IF out = "sent" THEN Append(@, Prefix(data, 1)) ELSE @]
           /\ bridgePending' = [bridgePending EXCEPT ![c] = IF out = "full" THEN data ELSE @]
           /\ connPc' = [connPc EXCEPT ![c] = IF out = "full" THEN "bridge_send" ELSE "bridge"]
    /\ UNCHANGED <<tunnelVars, workload, poolVars, serverVars, virtual_port, result, abort, ready,
                   ifacePc, client, srcSent, clientOut, data_to_real_client, ifaceData>>

\* readable arm, Ok(size) with size > 0 (lines 131-144): up to MAX_PACKET
\* bytes are read and sent as one chunk on data_to_virtual_server; a send
\* error is logged and the loop continues.
BridgeRead(c) ==
    /\ connPc[c] = "bridge"
    /\ client[c] # "reset"
    /\ srcBuf[c] # <<>>
    /\ LET size == Min(Len(srcBuf[c]), MAX_PACKET)
           data == Prefix(srcBuf[c], size)
           out == SendOutcome(data_to_virtual_server[c], IfaceAlive(c))
       IN  /\ srcBuf' = [srcBuf EXCEPT ![c] = Suffix(@, size)]
           /\ srcRead' = [srcRead EXCEPT ![c] = @ \o data]
           /\ data_to_virtual_server' =
                 [data_to_virtual_server EXCEPT ![c] = IF out = "sent" THEN Append(@, data) ELSE @]
           /\ bridgePending' = [bridgePending EXCEPT ![c] = IF out = "full" THEN data ELSE @]
           /\ connPc' = [connPc EXCEPT ![c] = IF out = "full" THEN "bridge_send" ELSE "bridge"]
    /\ UNCHANGED <<tunnelVars, workload, poolVars, serverVars, virtual_port, result, abort, ready, ifacePc, client,
                   srcSent, clientOut, data_to_real_client, ifaceData>>

\* The suspended send of line 138 completes: the chunk is enqueued once there
\* is room, or the send fails because the receiver was dropped.
BridgeSendResume(c) ==
    /\ connPc[c] = "bridge_send"
    /\ LET out == SendOutcome(data_to_virtual_server[c], IfaceAlive(c))
       IN  /\ out # "full"
           /\ data_to_virtual_server' =
                 [data_to_virtual_server EXCEPT
                     ![c] = IF out = "sent" THEN Append(@, bridgePending[c]) ELSE @]
    /\ bridgePending' = [bridgePending EXCEPT ![c] = <<>>]
    /\ connPc' = [connPc EXCEPT ![c] = "bridge"]
    /\ UNCHANGED <<tunnelVars, workload, poolVars, serverVars, virtual_port, result, abort, ready, ifacePc, client,
                   srcSent, srcBuf, srcRead, clientOut, data_to_real_client, ifaceData>>

\* readable arm, break (lines 148-163): the read returned Ok(0) at EOF, or an
\* error other than WouldBlock after a reset.
BridgeReadBreak(c) ==
    /\ connPc[c] = "bridge"
    /\ \/ client[c] = "eof" /\ srcBuf[c] = <<>>
       \/ client[c] = "reset"
    /\ BridgeExit(c)

\* recv arm, Some(data) and try_write returned Ok(size) (lines 168-174): the
\* first size bytes of the chunk are written; nothing is done with the rest.
BridgeWriteOk(c, size) ==
    /\ connPc[c] = "bridge"
    /\ client[c] # "reset"
    /\ data_to_real_client[c] # <<>>
    /\ size \in 1 .. Len(Head(data_to_real_client[c]))
    /\ clientOut' = [clientOut EXCEPT ![c] = @ \o Prefix(Head(data_to_real_client[c]), size)]
    /\ data_to_real_client' = [data_to_real_client EXCEPT ![c] = Tail(@)]
    /\ UNCHANGED <<tunnelVars, workload, poolVars, serverVars, connVars, client, srcSent, srcBuf, srcRead,
                   bridgePending, data_to_virtual_server, ifaceData>>

\* recv arm, Some(data) and try_write returned WouldBlock (lines 175-181):
\* the chunk is gone; break if abort is set, continue otherwise.
BridgeWriteWouldBlock(c) ==
    /\ connPc[c] = "bridge"
    /\ client[c] # "reset"
    /\ data_to_real_client[c] # <<>>
    /\ IF abort[c]
       THEN BridgeExit(c)
       ELSE /\ data_to_real_client' = [data_to_real_client EXCEPT ![c] = Tail(@)]
            /\ UNCHANGED <<tunnelVars, workload, poolVars, serverVars, connVars, bridgeData,
                           data_to_virtual_server, ifaceData>>

\* recv arm, Some(data) and try_write returned another error (lines 182-187):
\* the error is logged; there is no break, the loop goes on.
BridgeWriteError(c) ==
    /\ connPc[c] = "bridge"
    /\ client[c] = "reset"
    /\ data_to_real_client[c] # <<>>
    /\ data_to_real_client' = [data_to_real_client EXCEPT ![c] = Tail(@)]
    /\ UNCHANGED <<tunnelVars, workload, poolVars, serverVars, connVars, bridgeData, data_to_virtual_server,
                   ifaceData>>

\* recv arm, None (lines 189-195): the channel is empty and its sender was
\* dropped; break if abort is set, continue otherwise.
BridgeRecvNone(c) ==
    /\ connPc[c] = "bridge"
    /\ data_to_real_client[c] = <<>>
    /\ ~IfaceAlive(c)
    /\ IF abort[c]
       THEN BridgeExit(c)
       ELSE UNCHANGED vars

\* ------------------------------------- the per-connection virtual interface
\* The interface task ends and the TcpVirtualInterface is dropped: its channel
\* ends, the socket set and the virtual device go away.
IfaceDrop(c) ==
    /\ data_to_virtual_server' = [data_to_virtual_server EXCEPT ![c] = <<>>]
    /\ ifacePending' = [ifacePending EXCEPT ![c] = <<>>]
    /\ vsock' = [vsock EXCEPT ![c] = "Closed"]
    /\ txLen' = [txLen EXCEPT ![c] = 0]
    /\ sockIn' = [sockIn EXCEPT ![c] = <<>>]
    /\ inbound' = [inbound EXCEPT ![c] = <<>>]

\* poll_loop returns Err: the interface is dropped, and with it the ready
\* sender if it has not fired.
IfaceFail(c) ==
    /\ ifacePc' = [ifacePc EXCEPT ![c] = "failed"]
    /\ ready' = [ready EXCEPT ![c] = IF @ = "pending" THEN "dropped" ELSE @]
    /\ IfaceDrop(c)

\* Construction step 1: the virtual device is created and registered with
\* the tunnel under the virtual port; a duplicate registration fails.
IfaceRegister(c) ==
    /\ ifacePc[c] = "spawned"
    /\ IF virtual_port[c] \in registered
       THEN /\ IfaceFail(c)
            /\ UNCHANGED <<registered, routes>>
       ELSE /\ registered' = registered \cup {virtual_port[c]}
            /\ routes' = [routes EXCEPT ![virtual_port[c]] = c]
            /\ inbound' = [inbound EXCEPT ![c] = <<>>]
            /\ ifacePc' = [ifacePc EXCEPT ![c] = "setup"]
            /\ UNCHANGED <<ready, data_to_virtual_server, ifacePending, vsock, txLen, sockIn>>
    /\ UNCHANGED <<tunnelVars, workload, poolVars, serverPc, accepted, errors, connPc, virtual_port, result,
                   abort, bridgeData, data_to_real_client, dstSent>>

\* Construction steps 2-4: the stack and the two sockets are set up, the
\* client socket starts to connect, and the ready signal fires.
IfaceSetupOk(c) ==
    /\ ifacePc[c] = "setup"
    /\ vsock' = [vsock EXCEPT ![c] = "SynSent"]
    /\ ready' = [ready EXCEPT ![c] = "fired"]
    /\ ifacePc' = [ifacePc EXCEPT ![c] = "loop"]
    /\ UNCHANGED <<tunnelVars, workload, poolVars, serverVars, connPc, virtual_port, result, abort, bridgeData,
                   chanVars, ifacePending, txLen, sockIn, dstSent, inbound>>

\* listen() or connect() of the set-up fails and the error is returned with `?`.
IfaceSetupFail(c) ==
    /\ ifacePc[c] = "setup"
    /\ IfaceFail(c)
    /\ UNCHANGED <<tunnelVars, workload, poolVars, serverVars, connPc, virtual_port, result, abort, bridgeData,
                   data_to_real_client, dstSent>>

\* The poll loop fails while running: poll_loop returns Err to the task
\* closure of lines 110-115.
IfaceLoopFail(c) ==
    /\ ifacePc[c] = "loop"
    /\ IfaceFail(c)
    /\ UNCHANGED <<tunnelVars, workload, poolVars, serverVars, connPc, virtual_port, result, abort, bridgeData,
                   data_to_real_client, dstSent>>

\* An error closure that logs the error and does not store abort.
IfaceAbortOnErr_silent(c) ==
    /\ ifacePc[c] = "failed"
    /\ ifacePc' = [ifacePc EXCEPT ![c] = "done"]
    /\ UNCHANGED <<tunnelVars, workload, poolVars, serverVars, connPc, virtual_port, result, abort,
                   ready, bridgeData, chanVars, ifaceData>>

\* unwrap_or_else of lines 111-114: the error is logged and abort is stored.
IfaceAbortOnErr(c) ==
    /\ ifacePc[c] = "failed"
    /\ abort' = [abort EXCEPT ![c] = TRUE]
    /\ ifacePc' = [ifacePc EXCEPT ![c] = "done"]
    /\ UNCHANGED <<tunnelVars, workload, poolVars, serverVars, connPc, virtual_port, result, ready, bridgeData,
                   chanVars, ifaceData>>

\* Top of a poll loop iteration with abort set (main.rs lines 318-320): break;
\* the task returns Ok and the interface is dropped.
IfaceBreak(c) ==
    /\ ifacePc[c] = "loop"
    /\ abort[c]
    /\ ifacePc' = [ifacePc EXCEPT ![c] = "done"]
    /\ IfaceDrop(c)
    /\ UNCHANGED <<tunnelVars, workload, poolVars, serverVars, connPc, virtual_port, result, abort, ready,
                   bridgeData, data_to_real_client, dstSent>>

\* can_send of the virtual client socket: the socket may send (it is connected;
\* a FIN of the destination does not end the sending direction) and the send
\* buffer is not full.
CanSend(state, len) == state \in {"Established", "CloseWait"} /\ len < MAX_PACKET

\* send_slice: the socket takes as many bytes as its send buffer has room for
\* and returns their number.
SendSlice(data, len) == Min(Len(data), MAX_PACKET - len)

\* A can_send branch that reads the head chunk and leaves it in the channel.
IfaceCanSendBranch_peek(c, state, polled) ==
    /\ IF CanSend(state, polled) /\ data_to_virtual_server[c] # <<>>
       THEN LET data == Head(data_to_virtual_server[c])
                n == SendSlice(data, polled)
            IN  /\ sockIn' = [sockIn EXCEPT ![c] = @ \o Prefix(data, n)]
                /\ txLen' = [txLen EXCEPT ![c] = polled + n]
                /\ UNCHANGED data_to_virtual_server
       ELSE /\ txLen' = [txLen EXCEPT ![c] = polled]
            /\ UNCHANGED <<data_to_virtual_server, sockIn>>
    /\ ifacePc' = [ifacePc EXCEPT ![c] = "loop"]

\* can_send branch (main.rs lines 356-370) and the poll_delay sleep that ends
\* the iteration: a chunk is taken from data_to_virtual_server with try_recv
\* and handed to send_slice, whose count of accepted bytes is not looked at.
\* polled is the client socket's send buffer length after this iteration's poll.
IfaceCanSendBranch(c, state, polled) ==
    /\ IF CanSend(state, polled) /\ data_to_virtual_server[c] # <<>>
       THEN LET data == Head(data_to_virtual_server[c])
                n == SendSlice(data, polled)
            IN  /\ sockIn' = [sockIn EXCEPT ![c] = @ \o Prefix(data, n)]
                /\ txLen' = [txLen EXCEPT ![c] = polled + n]
                /\ data_to_virtual_server' = [data_to_virtual_server EXCEPT ![c] = Tail(@)]
       ELSE /\ txLen' = [txLen EXCEPT ![c] = polled]
            /\ UNCHANGED <<data_to_virtual_server, sockIn>>
    /\ ifacePc' = [ifacePc EXCEPT ![c] = "loop"]

\* One poll loop iteration with abort clear (main.rs lines 316-377).  What
\* virtual_interface.poll does to the client socket is the network's choice:
\* the handshake may complete, `drained` bytes of the send buffer leave,
\* `arrived` bytes of the destination enter the receive buffer.  If the
\* socket can_recv, the whole receive buffer is taken out of the socket and
\* sent on data_to_real_client with a suspending send (a send error is
\* logged); unless that send suspends, the can_send branch follows.
IfaceIteration(c, established, drained, arrived) ==
    /\ ifacePc[c] = "loop"
    /\ ~abort[c]
    /\ drained \in 0 .. txLen[c]
    /\ arrived \in 0 .. Min(workload.dst - dstSent, MAX_PACKET)
    /\ vsock[c] = "Established" => established
    /\ vsock[c] = "CloseWait" => ~established
    /\ arrived > 0 => established
    /\ vsock' = [vsock EXCEPT ![c] = IF established THEN "Established" ELSE @]
    /\ dstSent' = dstSent + arrived
    /\ inbound' = [inbound EXCEPT ![c] = <<>>]
    /\ LET data == [i \in 1 .. arrived |-> dstSent + i]
           out == IF data = <<>> THEN "none"
                  ELSE SendOutcome(data_to_real_client[c], HandlerAlive(c))
       IN  /\ data_to_real_client' =
                 [data_to_real_client EXCEPT ![c] = IF out = "sent" THEN Append(@, data) ELSE @]
           /\ IF out = "full"
              THEN /\ ifacePending' = [ifacePending EXCEPT ![c] = data]
                   /\ ifacePc' = [ifacePc EXCEPT ![c] = "recv_blocked"]
                   /\ txLen' = [txLen EXCEPT ![c] = @ - drained]
                   /\ UNCHANGED <<data_to_virtual_server, sockIn>>
              ELSE /\ IfaceCanSendBranch(c, IF established THEN "Established" ELSE vsock[c],
                                         txLen[c] - drained)
                   /\ UNCHANGED ifacePending
    /\ UNCHANGED <<tunnelVars, workload, poolVars, serverVars, connPc, virtual_port, result, abort, ready,
                   bridgeData>>

\* A poll loop iteration with abort clear in which poll processes the FIN of
\* the destination: the client socket goes to CloseWait and has nothing to
\* receive.  The loop does not look at the socket's state: the can_send
\* branch follows as in every iteration.
IfaceIterationFin(c) ==
    /\ ifacePc[c] = "loop"
    /\ ~abort[c]
    /\ vsock[c] = "Established"
    /\ vsock' = [vsock EXCEPT ![c] = "CloseWait"]
    /\ inbound' = [inbound EXCEPT ![c] = <<>>]
    /\ IfaceCanSendBranch(c, "CloseWait", txLen[c])
    /\ UNCHANGED <<tunnelVars, workload, poolVars, serverVars, connPc, virtual_port, result, abort,
                   ready, bridgeData, data_to_real_client, ifacePending, dstSent>>

\* The suspended send of main.rs line 341 completes: the chunk is enqueued
\* once there is room, or the send fails because the receiver was dropped;
\* the can_send branch follows.
IfaceRecvResume(c) ==
    /\ ifacePc[c] = "recv_blocked"
    /\ LET out == SendOutcome(data_to_real_client[c], HandlerAlive(c))
       IN  /\ out # "full"
           /\ data_to_real_client' =
                 [data_to_real_client EXCEPT
                     ![c] = IF out = "sent" THEN Append(@, ifacePending[c]) ELSE @]
    /\ ifacePending' = [ifacePending EXCEPT ![c] = <<>>]
    /\ IfaceCanSendBranch(c, vsock[c], txLen[c])
    /\ UNCHANGED <<tunnelVars, workload, poolVars, serverVars, connPc, virtual_port, result, abort, ready,
                   bridgeData, vsock, dstSent, inbound>>

\* ------------------------------------------------- the tunnel and the sink
\* Destination ports of the packets that come out of the tunnel: the ports
\* of the pool and one port that is never registered.
PacketPorts == MIN_PORT .. MAX_PORT

\* Routing rule for a decapsulated packet with TCP destination port p: to the
\* inbound queue registered under p if there is one, to the sink otherwise.
Route(p) ==
    /\ routed < workload.packets
    /\ routed' = routed + 1
    /\ IF p \in registered
       THEN /\ inbound' = [inbound EXCEPT ![routes[p]] = Append(@, p)]
            /\ UNCHANGED sinkQueue
       ELSE /\ sinkQueue' = Append(sinkQueue, p)
            /\ UNCHANGED inbound
    /\ UNCHANGED <<workload, poolVars, serverVars, connVars, bridgeData, chanVars, ifacePending,
                   vsock, txLen, sockIn, dstSent, sinkPc, sinkSleep>>

\* Sink loop, poll returned Ok(true) (ip_sink.rs lines 21-24): the frames of
\* the sink device were consumed; sleep 1 ms.
SinkPollProcessed ==
    /\ sinkPc = "poll"
    /\ sinkQueue # <<>>
    /\ sinkQueue' = <<>>
    /\ sinkPc' = "sleep"
    /\ sinkSleep' = 1
    /\ UNCHANGED <<workload, poolVars, serverVars, connVars, bridgeData, chanVars, ifaceData, routed>>

\* Sink loop, poll returned Err on one of the frames (ip_sink.rs lines 25-27):
\* the frames up to the failing one are consumed, the error is logged, and
\* the next iteration starts without a sleep.
SinkPollErr ==
    /\ sinkPc = "poll"
    /\ \E k \in 1 .. Len(sinkQueue) : sinkQueue' = Suffix(sinkQueue, k)
    /\ sinkPc' = "poll"
    /\ sinkSleep' = 0
    /\ UNCHANGED <<workload, poolVars, serverVars, connVars, bridgeData, chanVars, ifaceData, routed>>

\* Sink loop, poll returned Ok(false) (ip_sink.rs lines 28-30): sleep 5 ms.
SinkPollIdle ==
    /\ sinkPc = "poll"
    /\ sinkQueue = <<>>
    /\ sinkPc' = "sleep"
    /\ sinkSleep' = 5
    /\ UNCHANGED <<workload, poolVars, serverVars, connVars, bridgeData, chanVars, ifaceData,
                   sinkQueue, routed>>

\* The sleep of the sink loop is over: next iteration.
SinkWake ==
    /\ sinkPc = "sleep"
    /\ sinkPc' = "poll"
    /\ UNCHANGED <<workload, poolVars, serverVars, connVars, bridgeData, chanVars, ifaceData,
                   sinkQueue, routed, sinkSleep>>

SinkStep == SinkPollProcessed \/ SinkPollErr \/ SinkPollIdle \/ SinkWake

\* ----------------------------------------------------------- the program
ServerStep == AcceptSpawn \/ AcceptExhausted

ConnStep(c) ==
    \/ HandlerReady(c)
    \/ HandlerReadyDropped(c)
    \/ BridgeRead(c)
    \/ BridgeReadWouldBlock(c)
    \/ BridgeSendResume(c)
    \/ BridgeReadBreak(c)
    \/ \E size \in 1 .. MAX_PACKET : BridgeWriteOk(c, size)
    \/ BridgeWriteWouldBlock(c)
    \/ BridgeWriteError(c)
    \/ BridgeRecvNone(c)
    \/ ConnUnregister(c)
    \/ ConnRelease(c)

IfaceStep(c) ==
    \/ IfaceRegister(c)
    \/ IfaceSetupOk(c)
    \/ IfaceSetupFail(c)
    \/ IfaceLoopFail(c)
    \/ IfaceAbortOnErr(c)
    \/ IfaceBreak(c)
    \/ \E established \in BOOLEAN, drained \in 0 .. MAX_PACKET, arrived \in 0 .. MAX_PACKET :
          IfaceIteration(c, established, drained, arrived)
    \/ IfaceRecvResume(c)

ClientStep(c) == ClientSend(c) \/ \E how \in {"eof", "reset"} : ClientClose(c, how)

Next == ServerStep \/ \E c \in Conns : ConnStep(c) \/ IfaceStep(c) \/ ClientStep(c)

Spec == Init /\ [][Next]_vars

\* A run with a single connection.
ConnNext ==
    \/ AcceptSpawn
    \/ AcceptError
    \/ \E c \in Conns : ConnStep(c) \/ IfaceStep(c) \/ ClientStep(c) \/ IfaceIterationFin(c)

ConnSpec == ConnInit /\ [][ConnNext]_vars

\* Connections that carry no payload, the tunnel's routing and the sink loop.
TunnelConnStep(c) ==
    \/ HandlerReady(c)
    \/ HandlerReadyDropped(c)
    \/ BridgeReadWouldBlock(c)
    \/ BridgeReadBreak(c)
    \/ BridgeRecvNone(c)
    \/ ConnUnregister(c)
    \/ ConnRelease(c)

TunnelIfaceStep(c) ==
    \/ IfaceRegister(c)
    \/ IfaceSetupOk(c)
    \/ IfaceSetupFail(c)
    \/ IfaceLoopFail(c)
    \/ IfaceAbortOnErr(c)
    \/ IfaceBreak(c)
    \/ \E established \in BOOLEAN : IfaceIteration(c, established, 0, 0)

TunnelNext ==
    \/ ServerStep
    \/ \E c \in Conns :
          TunnelConnStep(c) \/ TunnelIfaceStep(c) \/ \E how \in {"eof", "reset"} : ClientClose(c, how)
    \/ \E p \in PacketPorts : Route(p)
    \/ SinkStep

TunnelSpec == TunnelInit /\ [][TunnelNext]_vars

\* The steps of the interface task that are the task's own: all but the
\* failures of the set-up and of the poll loop, which the task suffers.
IfaceRun(c) ==
    \/ IfaceRegister(c)
    \/ IfaceSetupOk(c)
    \/ IfaceAbortOnErr(c)
    \/ IfaceBreak(c)
    \/ \E established \in BOOLEAN, drained \in 0 .. MAX_PACKET, arrived \in 0 .. MAX_PACKET :
          IfaceIteration(c, established, drained, arrived)
    \/ IfaceRecvResume(c)

\* The executor runs every task that can take a step: each connection task
\* and each interface task is scheduled again and again.  Nothing is assumed
\* of the real client, the network or the destination, and no failure is
\* ever forced.
FairConnSpec ==
    ConnSpec /\ \A c \in Conns : WF_vars(ConnStep(c)) /\ WF_vars(IfaceRun(c))

\* ----------------------------------------------------- the pool's claims
\* C1: in every state of the pool, whatever next() and release(p) calls were
\* made, the free queue and the taken set are disjoint and together hold
\* exactly the ports of PORT_RANGE.  (Each call is one step under the write
\* lock, so no state between the two updates of a call exists.)
C1_PoolPartition ==
    /\ Range(inner.queue) \cap inner.taken = {}
    /\ Range(inner.queue) \cup inner.taken = PORT_RANGE

\* C3: release(p) of a port that is not in the taken set changes neither the
\* queue nor the taken set.
C3_ReleaseUntakenIsNoOp ==
    [][(calls' = calls + 1 /\ poolCall'.op = "release" /\ poolCall'.port \notin inner.taken)
          => inner' = inner]_vars

\* --------------------------------------------------- the server's claims
\* The connection task of slot c holds a port: next() returned it and
\* release has not been called for it.
Live(c) == connPc[c] # "idle"

\* C2: no two live connections hold the same virtual port, and every live
\* connection's port lies in PORT_RANGE.
C2_LivePortsUnique ==
    \A c \in Conns :
        Live(c) =>
            /\ virtual_port[c] \in PORT_RANGE
            /\ \A d \in Conns : (d # c /\ Live(d)) => virtual_port[d] # virtual_port[c]

\* Both slots are live, the second of them on a port that was used before.
C2_Witness == accepted = 3 /\ errors = 0 /\ \A c \in Conns : Live(c)

\* C4: when every port that next() returned has been released once (no
\* connection task holds a port), the free queue holds exactly the ports of
\* PORT_RANGE, each once, and the taken set is empty.
C4_RoundTrip ==
    (\A c \in Conns : ~Live(c)) =>
        /\ Range(inner.queue) = PORT_RANGE
        /\ Len(inner.queue) = PoolSize
        /\ inner.taken = {}

\* Three next/release pairs are over.
C4_Witness == accepted = 3 /\ errors = 0 /\ \A c \in Conns : ~Live(c)

\* Every port of the pool is held by a live connection.
AllPortsHeld ==
    /\ inner.queue = <<>>
    /\ \A p \in PORT_RANGE : \E c \in Conns : Live(c) /\ virtual_port[c] = p

\* C5: when the live connections hold every port, accepting one more
\* connection logs exactly one exhaustion error, changes neither the pool nor
\* the tunnel's registrations nor any connection, and leaves the accept loop
\* running; and the error is logged in no other case.
C5_Exhaustion ==
    [][/\ (accepted' = accepted + 1 /\ AllPortsHeld) =>
            /\ errors' = errors + 1
            /\ serverPc' = "accepting"
            /\ UNCHANGED <<inner, registered, connVars, bridgeData, chanVars, ifaceData>>
       /\ errors' # errors =>
            /\ errors' = errors + 1
            /\ accepted' = accepted + 1
            /\ AllPortsHeld]_vars

\* An exhaustion error was logged, and both connections are still there.
C5_Witness == errors = 1 /\ AllPortsHeld /\ serverPc = "accepting"

\* poll_loop of connection c has started and has not returned.
PollLoopRunning(c) == ifacePc[c] \in {"setup", "loop", "recv_blocked"}

\* C6: the port of a live connection is registered with the tunnel if and
\* only if the connection's poll loop has started and has not yet exited.
C6_RegisteredIffPolling ==
    \A c \in Conns : Live(c) => (virtual_port[c] \in registered <=> PollLoopRunning(c))

\* C7: a break out of the bridge loop stores abort; the connection task then
\* unregisters the port, with abort set, and only then releases it; and the
\* port next() hands to a new connection is not registered with the tunnel.
C7_TeardownOrder ==
    [][\A c \in Conns :
          /\ (BridgeRunning(c) /\ connPc'[c] = "returned") => abort'[c]
          /\ (connPc[c] = "returned" /\ connPc'[c] # "returned") =>
                /\ connPc'[c] = "unregistered"
                /\ result[c] = "ok" => abort[c]
                /\ virtual_port[c] \notin registered'
                /\ virtual_port[c] \in inner'.taken
          /\ (Live(c) /\ ~Live(c)') =>
                /\ connPc[c] = "unregistered"
                /\ virtual_port[c] \notin registered
                /\ virtual_port[c] \in Range(inner'.queue)
          /\ (~Live(c) /\ Live(c)') => virtual_port'[c] \notin registered]_vars

\* A connection whose bridge loop ended is between its unregistration and
\* its release, and a released port has been handed out again.
C7_Witness ==
    /\ accepted = 3
    /\ errors = 0
    /\ \E c \in Conns : connPc[c] = "unregistered" /\ result[c] = "ok"

\* ------------------------------------------------- the data path's claims
\* The bytes of connection c on their way to the destination, in order: those
\* send_slice accepted, those in data_to_virtual_server, the chunk of a
\* suspended send.
ToServer(c) == sockIn[c] \o Flatten(data_to_virtual_server[c]) \o bridgePending[c]

\* The bytes of connection c on their way to the real client, in order.
ToClient(c) == clientOut[c] \o Flatten(data_to_real_client[c]) \o ifacePending[c]

\* C8: while a connection stays open, the bytes handed to the virtual client
\* socket, followed by those still queued for it, are the bytes read from
\* the real socket: same bytes, same order, none dropped.
C8_LosslessToServer ==
    \A c \in Conns : (BridgeRunning(c) /\ IfaceAlive(c)) => ToServer(c) = srcRead[c]

CancelRequested(c) == client[c] \in {"eof", "reset"} \/ (Live(c) /\ abort[c])

\* Both loops of c are over, the registration and the port are released.
CleanedUp(c) == ~Live(c) /\ ~IfaceAlive(c) /\ registered = {} /\ inner.taken = {}

\* C10: once the real client drops the connection or abort is set, both loops
\* exit, the registration is released and the port is back in the pool; and
\* with abort set neither loop completes an iteration and goes on: the bridge
\* reads, writes or discards nothing more, the poll loop polls, receives and
\* sends nothing more.
C10_Cancellation ==
    /\ \A c \in Conns : CancelRequested(c) ~> CleanedUp(c)
    /\ [][\A c \in Conns :
             (abort[c] /\ connPc[c] = "bridge" /\ BridgeRunning(c)') =>
                 /\ srcRead'[c] = srcRead[c]
                 /\ clientOut'[c] = clientOut[c]
                 /\ Len(data_to_real_client'[c]) >= Len(data_to_real_client[c])]_vars
    /\ [][\A c \in Conns :
             (abort[c] /\ ifacePc[c] = "loop" /\ PollLoopRunning(c)') =>
                 /\ UNCHANGED <<vsock, txLen, sockIn, dstSent>>
                 /\ Len(data_to_virtual_server'[c]) >= Len(data_to_virtual_server[c])]_vars

\* ------------------------------------------------ close and error handling
\* The client socket has sent its FIN: the states a close() leads to.
FinEmitted(state) == state \in {"FinWait1", "FinWait2", "Closing", "LastAck", "TimeWait"}

\* C11: the poll loop is left (on abort, after the real client closed) with a
\* connected virtual client socket only after that socket has emitted its FIN
\* towards the destination; and once
\* the destination has closed (the client socket is in CloseWait) the bridge
\* loop ends, which closes the real source socket.
C11_ClosePropagation ==
    /\ [][\A c \in Conns :
             (ifacePc[c] = "loop" /\ ifacePc'[c] = "done" /\ vsock[c] \in {"Established", "CloseWait"}) =>
                 FinEmitted(vsock[c])]_vars
    /\ \A c \in Conns : (BridgeRunning(c) /\ vsock[c] = "CloseWait") ~> ~BridgeRunning(c)

\* C12: once the listener is bound, no error makes tcp_proxy_server return:
\* the accept loop is running in every state.
C12_ErrorContainment == serverPc = "accepting"

\* C14: a read of n > 0 bytes takes the first n <= MAX_PACKET bytes out of the
\* real socket and enqueues exactly them as one chunk on data_to_virtual_server
\* (at once, or when the suspended send completes) and the loop goes on; the
\* loop is left only at EOF, on an error of the real socket or with abort
\* set; and at EOF or on an error the loop is left.
C14_BridgeReadPath ==
    /\ [][\A c \in Conns :
             /\ (connPc[c] = "bridge" /\ BridgeRunning(c)' /\ srcRead'[c] # srcRead[c]) =>
                   LET n == Len(srcRead'[c]) - Len(srcRead[c])
                       data == Prefix(srcBuf[c], n)
                   IN  /\ n \in 1 .. Min(Len(srcBuf[c]), MAX_PACKET)
                       /\ srcRead'[c] = srcRead[c] \o data
                       /\ srcBuf'[c] = Suffix(srcBuf[c], n)
                       /\ IfaceAlive(c) =>
                             \/ /\ connPc'[c] = "bridge"
                                /\ data_to_virtual_server'[c] =
                                      Append(data_to_virtual_server[c], data)
                             \/ /\ connPc'[c] = "bridge_send"
                                /\ Len(data_to_virtual_server[c]) = ChanCap
                                /\ bridgePending'[c] = data
                                /\ data_to_virtual_server'[c] = data_to_virtual_server[c]
             /\ (connPc[c] = "bridge_send" /\ connPc'[c] # "bridge_send" /\ IfaceAlive(c)) =>
                   /\ connPc'[c] = "bridge"
                   /\ data_to_virtual_server'[c] =
                         Append(data_to_virtual_server[c], bridgePending[c])
             /\ (BridgeRunning(c) /\ ~BridgeRunning(c)') =>
                   \/ client[c] = "eof" /\ srcBuf[c] = <<>>
                   \/ client[c] = "reset"
                   \/ abort[c]]_vars
    /\ \A c \in Conns :
          (connPc[c] = "bridge" /\ (client[c] = "reset" \/ (client[c] = "eof" /\ srcBuf[c] = <<>>)))
              ~> ~BridgeRunning(c)

\* Several reads were made, and a chunk of MAX_PACKET bytes is in the channel.
C14_Witness ==
    \E c \in Conns :
        /\ connPc[c] = "bridge"
        /\ Len(srcRead[c]) > MAX_PACKET
        /\ \E i \in 1 .. Len(data_to_virtual_server[c]) :
              Len(data_to_virtual_server[c][i]) = MAX_PACKET

\* C15: a chunk taken from data_to_real_client of which nothing is written
\* ends the bridge loop when the write failed with an error of the real
\* socket, and when it failed with WouldBlock while abort is set.
C15_BridgeWritePath ==
    [][\A c \in Conns :
          (/\ connPc[c] = "bridge"
           /\ Len(data_to_real_client'[c]) < Len(data_to_real_client[c])
           /\ clientOut'[c] = clientOut[c]
           /\ (client[c] = "reset" \/ abort[c])) => ~BridgeRunning(c)']_vars

C17_RecvBackpressure ==
    \A c \in Conns : ifacePc[c] # "recv_blocked" /\ ifacePending[c] = <<>>

\* s is a prefix of t.
IsPrefix(s, t) == Len(s) <= Len(t) /\ SubSeq(t, 1, Len(s)) = s

\* C18: while the interface lives, the bytes send_slice accepted followed by
\* the bytes queued in data_to_virtual_server only grow at the end: what is
\* dequeued is either accepted by the socket or back at the head of the
\* queue; and send_slice accepts bytes only on a socket that can send.
C18_PartialSend ==
    [][\A c \in Conns :
          (IfaceAlive(c) /\ IfaceAlive(c)') =>
              /\ IsPrefix(sockIn[c] \o Flatten(data_to_virtual_server[c]),
                          sockIn'[c] \o Flatten(data_to_virtual_server'[c]))
              /\ sockIn'[c] # sockIn[c] => vsock'[c] \in {"Established", "CloseWait"}]_vars

\* C19: the bridge loop is entered, and bytes are read from the real socket,
\* only with the ready signal fired; with the ready sender dropped the
\* handler returns an error from its wait, and then the registration and the
\* port are released.
C19_ReadyGating ==
    /\ [][\A c \in Conns :
             /\ (~BridgeRunning(c) /\ BridgeRunning(c)') =>
                   connPc[c] = "wait_ready" /\ ready[c] = "fired"
             /\ (srcRead'[c] # srcRead[c] /\ srcRead'[c] # <<>>) => ready[c] = "fired"
             /\ (connPc[c] = "wait_ready" /\ ready[c] = "dropped" /\ connPc'[c] # "wait_ready") =>
                   connPc'[c] = "returned" /\ result'[c] = "err"]_vars
    /\ \A c \in Conns : (connPc[c] = "wait_ready" /\ ready[c] = "dropped") ~> CleanedUp(c)

\* The handler returned the error and the connection task has unregistered
\* the port.
C19_Witness == \E c \in Conns : result[c] = "err" /\ connPc[c] = "unregistered"

C20_SinkCadence ==
    [][(sinkPc = "poll" /\ (sinkPc' = "sleep" \/ Len(sinkQueue') < Len(sinkQueue))) =>
          /\ sinkPc' = "sleep"
          /\ sinkSleep' = IF sinkQueue # <<>> THEN 1 ELSE 5]_vars

\* ------------------------------------------------ release and blocking
\* C21: the taken ports are exactly the ports that connection tasks hold
\* (none leaked) and no port is in the pool twice (none released twice); a
\* connection task gives up its port only by the release of that port, after
\* its handler has returned and the port was unregistered; and whatever the
\* handler returned, the connection task does release the port.
C21_ExactlyOnceRelease ==
    /\ [](inner.taken = {virtual_port[c] : c \in {d \in Conns : Live(d)}})
    /\ [](Len(inner.queue) + Cardinality(inner.taken) = PoolSize)
    /\ [][\A c \in Conns :
             (Live(c) /\ ~Live(c)') =>
                 /\ connPc[c] = "unregistered"
                 /\ result[c] \in {"ok", "err"}
                 /\ virtual_port[c] \in inner.taken
                 /\ inner' = Pool_release(inner, virtual_port[c])]_vars
    /\ \A c \in Conns : (connPc[c] = "returned") ~> (~Live(c) /\ inner.taken = {})

\* The connection is over and its port is back in the pool.
C21_Witness ==
    /\ accepted = 1
    /\ \A c \in Conns : ~Live(c)
    /\ inner.taken = {}
    /\ Len(inner.queue) = PoolSize

\* C22: the bridge is never suspended in its send on a full
\* data_to_virtual_server while the interface is suspended in its send on a
\* full data_to_real_client.
C22_NoMutualBlocking ==
    \A c \in Conns :
        ~(/\ connPc[c] = "bridge_send"
          /\ Len(data_to_virtual_server[c]) = ChanCap
          /\ ifacePc[c] = "recv_blocked"
          /\ Len(data_to_real_client[c]) = ChanCap)

\* C23: while the bridge loop runs, the bytes written to the real client
\* followed by the bytes queued in data_to_real_client only grow at the end:
\* what the bridge dequeues is written, or kept to be written before any
\* later chunk.
C23_LosslessToClient ==
    [][\A c \in Conns :
          (BridgeRunning(c) /\ BridgeRunning(c)') =>
              IsPrefix(clientOut[c] \o Flatten(data_to_real_client[c]),
                       clientOut'[c] \o Flatten(data_to_real_client'[c]))]_vars

=============================================================================
